---- MODULE Spec2Model ----
(***************************************************************************)
(* MCP Noble command-execution gateway: the two server variants            *)
(* simple_http_server.py ("simple") and advanced_server.py ("advanced").   *)
(* Both run a plain single-threaded HTTPServer: one request is handled at  *)
(* a time, and the handler blocks while its subprocess runs.               *)
(*                                                                         *)
(* Text (commands, configuration values, messages, captured output) is a   *)
(* sequence of strings; commands and configuration values are sequences of *)
(* one-character strings, so that splitting and substring search are       *)
(* computed as Python computes them.  Time is in whole seconds.            *)
(***************************************************************************)
EXTENDS Integers, Sequences, FiniteSets, TLC

VARIABLES
    variant,            \* which server runs: "simple" or "advanced"
    ALLOWED_COMMANDS,   \* CONFIG['ALLOWED_COMMANDS'], the raw text
    now,                \* time.time()
    sessions,           \* SessionManager.sessions: id -> record
    command_history,    \* SessionManager.command_history (simple): id -> records
    requests,           \* RateLimiter.requests (simple): client -> timestamps
    proc,               \* the subprocess the handler is blocked on, or NoProc
    req,                \* the request handled last (or being handled)
    resp,               \* the response sent to it (NoResp while it is blocked)
    admitted,           \* observer: per client, the times of its POSTs not answered 429
    created,            \* number of session tokens generated so far
    engine,             \* the commands handed to subprocess so far, in order,
                        \* each with whether its child process is still alive
    nreq,               \* number of requests the run may still receive
    nticks              \* number of clock advances the run may still make

vars == <<variant, ALLOWED_COMMANDS, now, sessions, command_history, requests,
          proc, req, resp, admitted, created, engine, nreq, nticks>>

---------------------------------------------------------------------------
(* Bounds of the model *)

MaxRequests == 3
MaxTicks == 1
MaxRateRequests == 4
MaxRateTicks == 1
MaxHistRequests == 2
MaxHistTicks == 1
MaxExecRequests == 3
MaxExecTicks == 2
MaxRecordCalls == 2
MaxRecordTicks == 1
MaxSessRequests == 3
MaxSessTicks == 2
MaxPostRequests == 3
MaxPostTicks == 1
MaxPolicyRequests == 3
MaxPolicyTicks == 1
\* configuration values (defaults 60, 30, 1048576), scaled down
RATE_LIMIT == 2
COMMAND_TIMEOUT == 1
MAX_OUTPUT_SIZE == 2

(* Program constants *)

SESSION_TIMEOUT == 3600
RATE_WINDOW == 60
HISTORY_CAP_SIMPLE == 100
HISTORY_CAP_ADVANCED == 50
HISTORY_VIEW == 10
ACTIVE_WINDOW == 300

---------------------------------------------------------------------------
(* Text *)

\* Python str.split(): the maximal runs of non-whitespace characters
IsSpace(c) == c \in {" ", "\t", "\n"}

RECURSIVE SplitWs(_, _, _)
SplitWs(s, cur, acc) ==
    IF s = <<>>
    THEN IF cur = <<>> THEN acc ELSE Append(acc, cur)
    ELSE IF IsSpace(Head(s))
         THEN SplitWs(Tail(s), <<>>, IF cur = <<>> THEN acc ELSE Append(acc, cur))
         ELSE SplitWs(Tail(s), Append(cur, Head(s)), acc)

split(s) == SplitWs(s, <<>>, <<>>)

\* Python str.split(sep): every separator cuts, empty pieces are kept
RECURSIVE SplitOn(_, _, _, _)
SplitOn(s, sep, cur, acc) ==
    IF s = <<>>
    THEN Append(acc, cur)
    ELSE IF Head(s) = sep
         THEN SplitOn(Tail(s), sep, <<>>, Append(acc, cur))
         ELSE SplitOn(Tail(s), sep, Append(cur, Head(s)), acc)

split_comma(s) == SplitOn(s, ",", <<>>, <<>>)

\* Python `pat in s` on strings
Contains(pat, s) ==
    \E i \in 1..(Len(s) - Len(pat) + 1) : SubSeq(s, i, i + Len(pat) - 1) = pat

\* Python `x in list`
InList(x, l) == \E i \in 1..Len(l) : l[i] = x

\* Python l[-n:]
LastN(l, n) == IF Len(l) <= n THEN l ELSE SubSeq(l, Len(l) - n + 1, Len(l))

\* Python l[:n]
FirstN(l, n) == IF Len(l) <= n THEN l ELSE SubSeq(l, 1, n)

\* Python str.lower(), on the letters the commands use
Lower(c) == IF c = "L" THEN "l" ELSE IF c = "S" THEN "s" ELSE c
LowerText(s) == [i \in 1..Len(s) |-> Lower(s[i])]

\* Python ', '.join(l)
RECURSIVE Join(_)
Join(l) ==
    IF l = <<>> THEN <<>>
    ELSE IF Len(l) = 1 THEN l[1]
    ELSE l[1] \o <<", ">> \o Join(Tail(l))

---------------------------------------------------------------------------
(* Dictionaries *)

EmptyDict == <<>>
Put(d, k, v) == [x \in (DOMAIN d) \cup {k} |-> IF x = k THEN v ELSE d[x]]
Del(d, k) == [x \in (DOMAIN d) \ {k} |-> d[x]]

---------------------------------------------------------------------------
(* Configuration *)

Variants == {"simple", "advanced"}

\* the default whitelist shortened to two commands, and the unrestricted sentinel
Whitelist == <<"l", "s", ",", "c", "a", "t">>
Star == <<"*">>
AllowedConfigs == {Whitelist, Star}

IS_UNRESTRICTED == ALLOWED_COMMANDS = Star

\* the backquote character (the lexer takes no backquote inside a string)
Backquote == "BACKQUOTE"

dangerous_patterns ==
    << <<".", ".">>, <<"~", "/">>, <<"/", "e", "t", "c", "/">>,
       <<"/", "r", "o", "o", "t", "/">>, <<"$", "(">>, <<"$", "{">>, <<Backquote>>,
       <<";", "r", "m">>, <<";", "s", "u", "d", "o">> >>

---------------------------------------------------------------------------
(* SessionManager.  Each operation is given the tables and the clock and   *)
(* yields the tables after the call, with the value returned in `ok`.      *)

\* secrets.token_urlsafe: the n-th token generated; tokens never repeat
Token(n) == <<"s", ToString(n)>>

Simple_create_session(sess, hist, sid, t) ==
    [sessions |-> Put(sess, sid, [created |-> t, last_access |-> t, commands_run |-> 0]),
     command_history |-> Put(hist, sid, <<>>)]

\* mutant: the session expires as soon as the idle time reaches the timeout
Simple_session_expired_at_timeout(sess, sid, t) ==
    t - sess[sid].last_access >= SESSION_TIMEOUT

Simple_session_expired(sess, sid, t) ==
    t - sess[sid].last_access > SESSION_TIMEOUT

\* mutant: an expired session is deleted from the session table and its
\* history is left behind
Simple_validate_session_keeps_history(sess, hist, sid, t) ==
    IF sid \notin DOMAIN sess
    THEN [ok |-> FALSE, sessions |-> sess, command_history |-> hist]
    ELSE IF Simple_session_expired(sess, sid, t)
         THEN [ok |-> FALSE, sessions |-> Del(sess, sid), command_history |-> hist]
         ELSE [ok |-> TRUE,
               sessions |-> [sess EXCEPT ![sid].last_access = t],
               command_history |-> hist]

\* mutant: a validation that finds its session expired sweeps every expired
\* session out of the table
Simple_validate_session_sweeping(sess, hist, sid, t) ==
    IF sid \notin DOMAIN sess
    THEN [ok |-> FALSE, sessions |-> sess, command_history |-> hist]
    ELSE IF Simple_session_expired(sess, sid, t)
         THEN LET keep == {s \in DOMAIN sess : ~Simple_session_expired(sess, s, t)}
              IN  [ok |-> FALSE,
                   sessions |-> [s \in keep |-> sess[s]],
                   command_history |-> [s \in DOMAIN hist \cap keep |-> hist[s]]]
         ELSE [ok |-> TRUE,
               sessions |-> [sess EXCEPT ![sid].last_access = t],
               command_history |-> hist]

Simple_validate_session(sess, hist, sid, t) ==
    IF sid \notin DOMAIN sess
    THEN [ok |-> FALSE, sessions |-> sess, command_history |-> hist]
    ELSE IF Simple_session_expired(sess, sid, t)
         THEN [ok |-> FALSE, sessions |-> Del(sess, sid),
               command_history |-> IF sid \in DOMAIN hist THEN Del(hist, sid) ELSE hist]
         ELSE [ok |-> TRUE,
               sessions |-> [sess EXCEPT ![sid].last_access = t],
               command_history |-> hist]

Simple_trim(h) ==
    IF Len(h) > HISTORY_CAP_SIMPLE THEN Tail(h) ELSE h

\* mutant: the record is put in front, history.insert(0, record)
Simple_add_command_in_front(sess, hist, sid, command, result, t) ==
    IF sid \in DOMAIN hist
    THEN [sessions |-> [sess EXCEPT ![sid].commands_run = @ + 1],
          command_history |->
              [hist EXCEPT ![sid] =
                  FirstN(<<[timestamp |-> t, command |-> command,
                            result |-> result]>> \o @, HISTORY_CAP_SIMPLE)]]
    ELSE [sessions |-> sess, command_history |-> hist]

\* mutant: the record is appended and commands_run is left as it was
Simple_add_command_uncounted(sess, hist, sid, command, result, t) ==
    IF sid \in DOMAIN hist
    THEN [sessions |-> sess,
          command_history |->
              [hist EXCEPT ![sid] =
                  Simple_trim(Append(@, [timestamp |-> t, command |-> command,
                                         result |-> result]))]]
    ELSE [sessions |-> sess, command_history |-> hist]

Simple_add_command(sess, hist, sid, command, result, t) ==
    IF sid \in DOMAIN hist
    THEN [sessions |-> [sess EXCEPT ![sid].commands_run = @ + 1],
          command_history |->
              [hist EXCEPT ![sid] =
                  Simple_trim(Append(@, [timestamp |-> t, command |-> command,
                                         result |-> result]))]]
    ELSE [sessions |-> sess, command_history |-> hist]

Adv_create_session(sess, sid, t) ==
    Put(sess, sid, [created |-> t, last_access |-> t, history |-> <<>>])

Adv_session_expired(sess, sid, t) ==
    t - sess[sid].last_access > SESSION_TIMEOUT

\* mutant: last_access is refreshed before the idle time is looked at
Adv_validate_session_refresh_first(sess, sid, t) ==
    IF sid \notin DOMAIN sess
    THEN [ok |-> FALSE, sessions |-> sess]
    ELSE [ok |-> TRUE, sessions |-> [sess EXCEPT ![sid].last_access = t]]

Adv_validate_session(sess, sid, t) ==
    IF sid \notin DOMAIN sess
    THEN [ok |-> FALSE, sessions |-> sess]
    ELSE IF Adv_session_expired(sess, sid, t)
         THEN [ok |-> FALSE, sessions |-> Del(sess, sid)]
         ELSE [ok |-> TRUE, sessions |-> [sess EXCEPT ![sid].last_access = t]]

\* a trim that keeps the oldest records, history[:50], instead of the newest
Adv_trim_keeps_oldest(h) == FirstN(h, HISTORY_CAP_ADVANCED)

\* history[-50:]
Adv_trim(h) == LastN(h, HISTORY_CAP_ADVANCED)

Adv_add_command(sess, sid, command, result, t) ==
    LET v == Adv_validate_session(sess, sid, t)
    IN  IF v.ok
        THEN [v.sessions EXCEPT ![sid].history =
                 Adv_trim(Append(@, [timestamp |-> t, command |-> command,
                                     result |-> result]))]
        ELSE v.sessions

---------------------------------------------------------------------------
(* RateLimiter (simple_http_server only) *)

\* mutant: a timestamp exactly a minute old is kept
Recent_inclusive(ts, t) == SelectSeq(ts, LAMBDA x : x >= t - RATE_WINDOW)

\* the timestamps is_allowed keeps: those newer than a minute ago
Recent(ts, t) == SelectSeq(ts, LAMBDA x : x > t - RATE_WINDOW)

\* mutant: one request more than the limit gets through
OverLimit_off_by_one(ts) == Len(ts) > RATE_LIMIT

OverLimit(ts) == Len(ts) >= RATE_LIMIT

\* mutant: one list of timestamps for all clients
is_allowed_shared(reqs, client_ip, t) ==
    LET stored == IF "all" \in DOMAIN reqs THEN reqs["all"] ELSE <<>>
        kept == Recent(stored, t)
    IN  IF OverLimit(kept)
        THEN [ok |-> FALSE, requests |-> Put(reqs, "all", kept)]
        ELSE [ok |-> TRUE, requests |-> Put(reqs, "all", Append(kept, t))]

is_allowed(reqs, client_ip, t) ==
    LET stored == IF client_ip \in DOMAIN reqs THEN reqs[client_ip] ELSE <<>>
        kept == Recent(stored, t)
    IN  IF OverLimit(kept)
        THEN [ok |-> FALSE, requests |-> Put(reqs, client_ip, kept)]
        ELSE [ok |-> TRUE, requests |-> Put(reqs, client_ip, Append(kept, t))]

---------------------------------------------------------------------------
(* Requests, responses, subprocesses *)

NoProc == [running |-> FALSE]
NoResp == [status |-> 0]
\* the handler raised: socketserver logs the traceback and closes the
\* connection, nothing was sent
Dropped == [status |-> 0, closed |-> TRUE]
NoReq ==
    [kind |-> "none", client |-> "", session_id |-> <<>>, command |-> <<>>,
     at |-> 0, known |-> FALSE, idle |-> -1, spawned |-> FALSE]

\* send_error(code, message)
SendError(code, message) == [status |-> code, message |-> message]
\* send_json_response(data) / send_json(data, status)
SendJson(code, data) == [status |-> code, json |-> data]

\* what a child process that ends in time leaves behind
Completions ==
    { [exit_code |-> 1, stdout |-> <<>>, stderr |-> <<"x", "y", "z">>],
      [exit_code |-> 0, stdout |-> <<"x", "y", "z">>, stderr |-> <<"h", "i">>] }

\* the record of a request as it arrives: its inputs, the time, whether the
\* session table holds its session_id and for how long that session has been
\* idle (-1 if there is none); `spawned` is set when the handler spawns a child
Arrival(kind, client, sid, command) ==
    [kind |-> kind, client |-> client, session_id |-> sid, command |-> command,
     at |-> now,
     known |-> sid \in DOMAIN sessions,
     idle |-> IF sid \in DOMAIN sessions THEN now - sessions[sid].last_access ELSE -1,
     spawned |-> FALSE]

---------------------------------------------------------------------------
(* simple_http_server: MCPHTTPHandler.handle_execute up to the spawn *)

Simple_allowed_commands == split_comma(ALLOWED_COMMANDS)

Simple_command_base(command) ==
    IF split(command) # <<>> THEN split(command)[1] ELSE <<>>

\* mutant: the basename is compared without regard to case
Simple_not_allowed_nocase(command) ==
    ~InList(LowerText(Simple_command_base(command)), Simple_allowed_commands)

Simple_not_allowed(command) ==
    ~InList(Simple_command_base(command), Simple_allowed_commands)

Simple_not_allowed_result(command) ==
    [success |-> FALSE,
     error |-> <<"Command '">> \o Simple_command_base(command)
               \o <<"' is not allowed. Allowed commands: ">>
               \o Join(FirstN(Simple_allowed_commands, 10))
               \o (IF Len(Simple_allowed_commands) > 10
                   THEN <<" and ", ToString(Len(Simple_allowed_commands) - 10), " more">>
                   ELSE <<>>)]

\* mutant: the scan goes on to the end of the list, and the last pattern
\* found is the one reported
Simple_dangerous_last(command) ==
    LET hits == {i \in 1..Len(dangerous_patterns) :
                    Contains(dangerous_patterns[i], command)}
    IN  IF hits = {} THEN 0 ELSE CHOOSE i \in hits : \A j \in hits : i >= j

\* the first pattern of the list found in the command; 0 if none is
Simple_dangerous(command) ==
    LET hits == {i \in 1..Len(dangerous_patterns) :
                    Contains(dangerous_patterns[i], command)}
    IN  IF hits = {} THEN 0 ELSE CHOOSE i \in hits : \A j \in hits : i <= j

Simple_dangerous_result(command) ==
    [success |-> FALSE,
     error |-> <<"Security violation: dangerous pattern ">>
               \o dangerous_patterns[Simple_dangerous(command)]]

Simple_exception_result == [success |-> FALSE, error |-> <<"Execution error">>]

Simple_timeout_result ==
    [success |-> FALSE,
     error |-> <<"Command timed out after ", ToString(COMMAND_TIMEOUT), " seconds">>]

\* the outcome of the handler's first part: the tables, the response (NoResp
\* when the handler goes on to spawn the child) and whether it calls Popen
Simple_handle_execute(sess, hist, sid, command, t) ==
    LET v == Simple_validate_session(sess, hist, sid, t)
        Recorded(result) ==
            LET a == Simple_add_command(v.sessions, v.command_history, sid,
                                        command, result, t)
            IN  [sessions |-> a.sessions, command_history |-> a.command_history,
                 resp |-> SendJson(200, result), spawn |-> FALSE]
    IN  IF ~v.ok
        THEN [sessions |-> v.sessions, command_history |-> v.command_history,
              resp |-> SendError(401, <<"Invalid or expired session">>),
              spawn |-> FALSE]
        ELSE IF command = <<>>
        THEN [sessions |-> v.sessions, command_history |-> v.command_history,
              resp |-> SendJson(200, [success |-> FALSE,
                                      error |-> <<"No command provided">>]),
              spawn |-> FALSE]
        ELSE IF Simple_not_allowed(command)
        THEN Recorded(Simple_not_allowed_result(command))
        ELSE IF Simple_dangerous(command) # 0
        THEN Recorded(Simple_dangerous_result(command))
        ELSE [sessions |-> v.sessions, command_history |-> v.command_history,
              resp |-> NoResp, spawn |-> TRUE]

\* mutant: the handler runs first and the limiter's verdict only replaces the
\* answer
Simple_do_POST_limits_last(ok, sess, hist, handled) ==
    IF ~ok
    THEN [handled EXCEPT !.resp = SendError(429, <<"Too Many Requests">>),
                         !.spawn = FALSE]
    ELSE handled

\* do_POST: a client over its limit is answered 429 before the path is looked
\* at; `handled` is what the handler of the path does otherwise
Simple_do_POST(ok, sess, hist, handled) ==
    IF ~ok
    THEN [sessions |-> sess, command_history |-> hist,
          resp |-> SendError(429, <<"Too Many Requests">>), spawn |-> FALSE]
    ELSE handled

\* text[:max_output] + marker when the text is longer than max_output
Simple_truncate(text, marker) ==
    IF Len(text) > MAX_OUTPUT_SIZE
    THEN SubSeq(text, 1, MAX_OUTPUT_SIZE) \o marker
    ELSE text

\* mutant: success follows the exit code
Simple_completed_result_success_on_zero(c) ==
    [success |-> c.exit_code = 0,
     output |-> Simple_truncate(c.stdout,
                   <<"\n... (output truncated at ", ToString(MAX_OUTPUT_SIZE), " bytes)">>),
     error |-> Simple_truncate(c.stderr,
                   <<"\n... (error output truncated at ", ToString(MAX_OUTPUT_SIZE), " bytes)">>),
     exit_code |-> c.exit_code]

Simple_completed_result(c) ==
    [success |-> TRUE,
     output |-> Simple_truncate(c.stdout,
                   <<"\n... (output truncated at ", ToString(MAX_OUTPUT_SIZE), " bytes)">>),
     error |-> Simple_truncate(c.stderr,
                   <<"\n... (error output truncated at ", ToString(MAX_OUTPUT_SIZE), " bytes)">>),
     exit_code |-> c.exit_code]

---------------------------------------------------------------------------
(* advanced_server: MCPHTTPHandler.serve_api_execute up to the spawn *)

Adv_allowed_commands == split_comma(ALLOWED_COMMANDS)

Adv_not_allowed(command) ==
    /\ ~IS_UNRESTRICTED
    /\ ~InList(split(command)[1], Adv_allowed_commands)

Adv_not_allowed_result(command) ==
    [success |-> FALSE,
     error |-> <<"Command '">> \o split(command)[1] \o <<"' is not allowed.">>,
     output |-> <<>>, exit_code |-> -1, command |-> command]

Adv_server_error == SendJson(500, [error |-> <<"Server Execution Error">>])

\* serve_api_execute from the empty-command check to the spawn; sess is the
\* session table after validation
Adv_checks(sess, sid, command, t) ==
    IF command = <<>>
    THEN [sessions |-> sess,
          resp |-> SendJson(400, [error |-> <<"Command cannot be empty">>]),
          spawn |-> FALSE]
    ELSE IF split(command) = <<>>
    THEN \* command.split()[0] raises IndexError, caught by the handler
         [sessions |-> sess, resp |-> Adv_server_error, spawn |-> FALSE]
    ELSE IF Adv_not_allowed(command)
    THEN [sessions |-> Adv_add_command(sess, sid, command,
                                       Adv_not_allowed_result(command), t),
          resp |-> SendJson(403, Adv_not_allowed_result(command)),
          spawn |-> FALSE]
    ELSE [sessions |-> sess, resp |-> NoResp, spawn |-> TRUE]

\* mutant: the empty-command check comes before session validation
Adv_serve_api_execute_empty_first(sess, sid, command, t) ==
    LET v == Adv_validate_session(sess, sid, t)
    IN  IF command # <<>> /\ ~v.ok
        THEN [sessions |-> v.sessions,
              resp |-> SendJson(403, [error |-> <<"Invalid or expired session">>]),
              spawn |-> FALSE]
        ELSE Adv_checks(v.sessions, sid, command, t)

Adv_serve_api_execute(sess, sid, command, t) ==
    LET v == Adv_validate_session(sess, sid, t)
    IN  IF ~v.ok
        THEN [sessions |-> v.sessions,
              resp |-> SendJson(403, [error |-> <<"Invalid or expired session">>]),
              spawn |-> FALSE]
        ELSE Adv_checks(v.sessions, sid, command, t)

Adv_completed_result(command, c) ==
    [success |-> TRUE, command |-> command, output |-> c.stdout,
     error |-> c.stderr, exit_code |-> c.exit_code]

---------------------------------------------------------------------------
(* Inputs *)

Clients == {"c1", "c2"}

\* the session_id a request carries: a token the server may issue, or none
SessionIds == {Token(1), <<>>}

Commands ==
    { <<>>,                                \* ''
      <<" ">>,                             \* ' '
      <<"l", "s">>,                        \* 'ls'
      <<"L", "s">>,                        \* 'Ls'
      <<"r", "m", " ", "x">>,              \* 'rm x'
      <<"l", "s", " ", ".", ".">>,         \* 'ls ..'
      <<"*">> }                            \* '*'

\* one second, the session timeout to the second, and one second past it
ClockSteps == {1, SESSION_TIMEOUT, SESSION_TIMEOUT + 1}

\* the rate window to the second, one second short of it and one second past it
RateClockSteps == {RATE_WINDOW - 1, RATE_WINDOW, RATE_WINDOW + 1}

\* the observer's note of a POST that was not answered 429
\* subprocess.Popen / subprocess.run is called for the command: its child
\* process is alive
Admitted(sid, command) ==
    Append(engine, [session_id |-> sid, command |-> command, alive |-> TRUE])

\* the child of the command handed over last is gone: it ended by itself, it
\* was never created (the spawn failed) or subprocess.run killed it
Ended == [engine EXCEPT ![Len(engine)].alive = FALSE]

Admit(client) ==
    Put(admitted, client,
        Append(IF client \in DOMAIN admitted THEN admitted[client] ELSE <<>>, now))

---------------------------------------------------------------------------
(* The state after construction *)

Start(variants, configs, max_requests, max_ticks) ==
    /\ variant \in variants
    /\ ALLOWED_COMMANDS \in configs
    /\ now = 0
    /\ sessions = EmptyDict
    /\ command_history = EmptyDict
    /\ requests = EmptyDict
    /\ proc = NoProc
    /\ req = NoReq
    /\ resp = NoResp
    /\ admitted = EmptyDict
    /\ created = 0
    /\ engine = <<>>
    /\ nreq = max_requests
    /\ nticks = max_ticks

---------------------------------------------------------------------------
(* The clock.  While the handler is blocked on its child the clock cannot  *)
(* pass the deadline: at the deadline communicate()/run() returns.         *)

Tick(d) ==
    /\ nticks > 0
    /\ proc.running => now + d <= proc.started + COMMAND_TIMEOUT
    /\ now' = now + d
    /\ nticks' = nticks - 1
    /\ UNCHANGED <<engine, variant, ALLOWED_COMMANDS, sessions, command_history, requests,
                   proc, req, resp, admitted, created, nreq>>

---------------------------------------------------------------------------
(* simple_http_server *)

\* mutant: a threading server, which takes a request while a handler is
\* still waiting for its subprocess
Idle_threaded == nreq > 0

\* HTTPServer takes the next request when the handler of the last has returned
Idle == ~proc.running /\ nreq > 0

\* POST /execute: do_POST, then handle_execute up to the spawn
Simple_POST_execute(client, sid, command) ==
    /\ variant = "simple" /\ Idle
    /\ nreq' = nreq - 1
    /\ LET rl == is_allowed(requests, client, now)
           h == Simple_do_POST(rl.ok, sessions, command_history,
                    Simple_handle_execute(sessions, command_history, sid, command, now))
       IN  /\ requests' = rl.requests
           /\ admitted' = IF rl.ok THEN Admit(client) ELSE admitted
           /\ sessions' = h.sessions
           /\ command_history' = h.command_history
           /\ resp' = h.resp
           /\ req' = [Arrival("execute", client, sid, command)
                         EXCEPT !.spawned = h.spawn]
           /\ proc' = IF h.spawn
                      THEN [running |-> TRUE, started |-> now,
                            session_id |-> sid, command |-> command]
                      ELSE NoProc
    /\ engine' = IF req'.spawned THEN Admitted(sid, command) ELSE engine
    /\ UNCHANGED <<variant, ALLOWED_COMMANDS, now, created, nticks>>

\* process.communicate(timeout) returns: the child ended in time
Simple_communicate(c) ==
    /\ variant = "simple" /\ proc.running
    /\ now - proc.started <= COMMAND_TIMEOUT
    /\ LET result == Simple_completed_result(c)
           a == Simple_add_command(sessions, command_history, proc.session_id,
                                   proc.command, result, now)
       IN  /\ sessions' = a.sessions
           /\ command_history' = a.command_history
           /\ resp' = SendJson(200, result)
    /\ proc' = NoProc
    /\ engine' = Ended
    /\ UNCHANGED <<variant, ALLOWED_COMMANDS, now, requests, req, admitted,
                   created, nreq, nticks>>

\* Popen or communicate raises another exception (the spawn fails)
Simple_Exception ==
    /\ variant = "simple" /\ proc.running
    /\ now = proc.started
    /\ LET a == Simple_add_command(sessions, command_history, proc.session_id,
                                   proc.command, Simple_exception_result, now)
       IN  /\ sessions' = a.sessions
           /\ command_history' = a.command_history
           /\ resp' = SendJson(200, Simple_exception_result)
    /\ proc' = NoProc
    /\ engine' = Ended
    /\ UNCHANGED <<variant, ALLOWED_COMMANDS, now, requests, req, admitted,
                   created, nreq, nticks>>

\* process.communicate(timeout) raises TimeoutExpired
Simple_TimeoutExpired ==
    /\ variant = "simple" /\ proc.running
    /\ now - proc.started >= COMMAND_TIMEOUT
    /\ LET a == Simple_add_command(sessions, command_history, proc.session_id,
                                   proc.command, Simple_timeout_result, now)
       IN  /\ sessions' = a.sessions
           /\ command_history' = a.command_history
           /\ resp' = SendJson(200, Simple_timeout_result)
    /\ proc' = NoProc
    /\ engine' = engine
    /\ UNCHANGED <<variant, ALLOWED_COMMANDS, now, requests, req, admitted,
                   created, nreq, nticks>>

\* POST /api/session: do_POST, then handle_session
Simple_POST_session(client, sids) ==
    /\ variant = "simple" /\ Idle /\ Token(created + 1) \in sids
    /\ nreq' = nreq - 1
    /\ req' = Arrival("session", client, <<>>, <<>>)
    /\ LET rl == is_allowed(requests, client, now)
           s == Simple_create_session(sessions, command_history,
                                      Token(created + 1), now)
       IN  /\ requests' = rl.requests
           /\ IF ~rl.ok
              THEN /\ resp' = SendError(429, <<"Too Many Requests">>)
                   /\ UNCHANGED <<sessions, command_history, admitted, created>>
              ELSE /\ admitted' = Admit(client)
                   /\ sessions' = s.sessions
                   /\ command_history' = s.command_history
                   /\ created' = created + 1
                   /\ resp' = SendJson(200, [session_id |-> Token(created + 1)])
    /\ UNCHANGED <<engine, variant, ALLOWED_COMMANDS, now, proc, nticks>>

\* serve_history: history[-10:]
Simple_history_view(history) == LastN(history, HISTORY_VIEW)

\* GET /api/history
Simple_serve_history(client, sid) ==
    /\ variant = "simple" /\ Idle
    /\ nreq' = nreq - 1
    /\ req' = Arrival("history", client, sid, <<>>)
    /\ LET v == Simple_validate_session(sessions, command_history, sid, now)
       IN  /\ sessions' = v.sessions
           /\ command_history' = v.command_history
           /\ resp' = IF ~v.ok
                      THEN SendError(401, <<"Invalid or expired session">>)
                      ELSE SendJson(200,
                               [history |->
                                   Simple_history_view(
                                       IF sid \in DOMAIN v.command_history
                                       THEN v.command_history[sid] ELSE <<>>)])
    /\ UNCHANGED <<engine, variant, ALLOWED_COMMANDS, now, requests, proc, admitted,
                   created, nticks>>

\* sum(s['commands_run'] for s in session_manager.sessions.values())
RECURSIVE total_commands(_, _)
total_commands(sess, sids) ==
    IF sids = {} THEN 0
    ELSE LET sid == CHOOSE x \in sids : TRUE
         IN  sess[sid].commands_run + total_commands(sess, sids \ {sid})

serve_web_ui == [status |-> 200, html |-> TRUE]

serve_health ==
    SendJson(200, [status |-> "healthy", version |-> "2.0.0", uptime |-> now,
                   active_sessions |-> Cardinality(DOMAIN sessions)])

serve_config ==
    SendJson(200, [allowed_commands |-> ALLOWED_COMMANDS,
                   command_timeout |-> COMMAND_TIMEOUT,
                   max_output_size |-> MAX_OUTPUT_SIZE,
                   rate_limit |-> RATE_LIMIT])

serve_stats ==
    SendJson(200, [total_sessions |-> Cardinality(DOMAIN sessions),
                   total_commands |-> total_commands(sessions, DOMAIN sessions),
                   server_uptime |-> now,
                   active_sessions |->
                       Cardinality({sid \in DOMAIN sessions :
                                       now - sessions[sid].last_access
                                           < ACTIVE_WINDOW})])

GetPaths == {"/", "/health", "/api/config", "/api/stats", "/other"}

\* do_GET for the paths that name no session
Simple_do_GET(client, path) ==
    /\ variant = "simple" /\ Idle
    /\ nreq' = nreq - 1
    /\ req' = [Arrival("get", client, <<>>, <<>>) EXCEPT !.command = <<path>>]
    /\ resp' = IF path = "/" THEN serve_web_ui
               ELSE IF path = "/health" THEN serve_health
               ELSE IF path = "/api/config" THEN serve_config
               ELSE IF path = "/api/stats" THEN serve_stats
               ELSE SendError(404, <<"Not Found">>)
    /\ UNCHANGED <<engine, variant, ALLOWED_COMMANDS, now, sessions, command_history,
                   requests, proc, admitted, created, nticks>>

\* mutant: do_POST looks at the path first and asks the rate limiter only
\* for the paths it serves
Simple_do_POST_other_routes_first(reqs, client, t) ==
    [ok |-> FALSE, requests |-> reqs, resp |-> SendError(404, <<"Not Found">>)]

\* do_POST for a path that is neither /execute nor /api/session
Simple_do_POST_other(reqs, client, t) ==
    LET rl == is_allowed(reqs, client, t)
    IN  [ok |-> rl.ok, requests |-> rl.requests,
         resp |-> IF rl.ok THEN SendError(404, <<"Not Found">>)
                  ELSE SendError(429, <<"Too Many Requests">>)]

\* POST to any other path
Simple_POST_other(client) ==
    /\ variant = "simple" /\ Idle
    /\ nreq' = nreq - 1
    /\ req' = Arrival("post", client, <<>>, <<>>)
    /\ LET h == Simple_do_POST_other(requests, client, now)
       IN  /\ requests' = h.requests
           /\ admitted' = IF h.ok THEN Admit(client) ELSE admitted
           /\ resp' = h.resp
    /\ UNCHANGED <<engine, variant, ALLOWED_COMMANDS, now, sessions, command_history,
                   proc, created, nticks>>

---------------------------------------------------------------------------
(* advanced_server *)

\* POST /api/execute: do_POST, then serve_api_execute up to subprocess.run
Adv_POST_execute(client, sid, command) ==
    /\ variant = "advanced" /\ Idle
    /\ nreq' = nreq - 1
    /\ LET h == Adv_serve_api_execute(sessions, sid, command, now)
       IN  /\ sessions' = h.sessions
           /\ resp' = h.resp
           /\ req' = [Arrival("execute", client, sid, command)
                         EXCEPT !.spawned = h.spawn]
           /\ proc' = IF h.spawn
                      THEN [running |-> TRUE, started |-> now,
                            session_id |-> sid, command |-> command]
                      ELSE NoProc
    /\ engine' = IF req'.spawned THEN Admitted(sid, command) ELSE engine
    /\ admitted' = Admit(client)
    /\ UNCHANGED <<variant, ALLOWED_COMMANDS, now, command_history, requests,
                   created, nticks>>

\* subprocess.run returns: the child ended in time
Adv_run(c) ==
    /\ variant = "advanced" /\ proc.running
    /\ now - proc.started <= COMMAND_TIMEOUT
    /\ LET result == Adv_completed_result(proc.command, c)
       IN  /\ sessions' = Adv_add_command(sessions, proc.session_id, proc.command,
                                          result, now)
           /\ resp' = SendJson(200, result)
    /\ proc' = NoProc
    /\ engine' = Ended
    /\ UNCHANGED <<variant, ALLOWED_COMMANDS, now, command_history, requests, req,
                   admitted, created, nreq, nticks>>

\* subprocess.run raises at the spawn; `except Exception` answers 500
Adv_Exception ==
    /\ variant = "advanced" /\ proc.running
    /\ now = proc.started
    /\ resp' = Adv_server_error
    /\ proc' = NoProc
    /\ engine' = Ended
    /\ UNCHANGED <<variant, ALLOWED_COMMANDS, now, sessions, command_history,
                   requests, req, admitted, created, nreq, nticks>>

\* subprocess.run kills the child and raises TimeoutExpired, which the
\* handler's `except Exception` turns into a 500
Adv_TimeoutExpired ==
    /\ variant = "advanced" /\ proc.running
    /\ now - proc.started >= COMMAND_TIMEOUT
    /\ resp' = Adv_server_error
    /\ proc' = NoProc
    /\ engine' = Ended
    /\ UNCHANGED <<variant, ALLOWED_COMMANDS, now, sessions, command_history,
                   requests, req, admitted, created, nreq, nticks>>

\* POST /api/session
Adv_serve_api_session(client, sids) ==
    /\ variant = "advanced" /\ Idle /\ Token(created + 1) \in sids
    /\ nreq' = nreq - 1
    /\ req' = Arrival("session", client, <<>>, <<>>)
    /\ sessions' = Adv_create_session(sessions, Token(created + 1), now)
    /\ created' = created + 1
    /\ resp' = SendJson(200, [session_id |-> Token(created + 1)])
    /\ admitted' = Admit(client)
    /\ UNCHANGED <<engine, variant, ALLOWED_COMMANDS, now, command_history, requests, proc,
                   nticks>>

\* GET /api/history
Adv_serve_api_history(client, sid) ==
    /\ variant = "advanced" /\ Idle
    /\ nreq' = nreq - 1
    /\ req' = Arrival("history", client, sid, <<>>)
    /\ LET v == Adv_validate_session(sessions, sid, now)
       IN  /\ sessions' = v.sessions
           /\ resp' = IF ~v.ok
                      THEN SendError(403, <<"Invalid session">>)
                      ELSE SendJson(200, v.sessions[sid].history)
    /\ UNCHANGED <<engine, variant, ALLOWED_COMMANDS, now, command_history, requests, proc,
                   admitted, created, nticks>>

---------------------------------------------------------------------------
(* Every request of either server, with its inputs drawn from the sets given *)

Requests(clients, sids, cmds) ==
    \/ \E c \in clients, sid \in sids, cmd \in cmds : Simple_POST_execute(c, sid, cmd)
    \/ \E o \in Completions : Simple_communicate(o)
    \/ Simple_Exception
    \/ Simple_TimeoutExpired
    \/ \E c \in clients : Simple_POST_session(c, sids)
    \/ \E c \in clients, sid \in sids : Simple_serve_history(c, sid)
    \/ \E c \in clients, sid \in sids, cmd \in cmds : Adv_POST_execute(c, sid, cmd)
    \/ \E o \in Completions : Adv_run(o)
    \/ Adv_Exception
    \/ Adv_TimeoutExpired
    \/ \E c \in clients : Adv_serve_api_session(c, sids)
    \/ \E c \in clients, sid \in sids : Adv_serve_api_history(c, sid)

(* The gateway: every command, one client *)

Init == Start(Variants, AllowedConfigs, MaxRequests, MaxTicks)

Next ==
    \/ \E d \in ClockSteps : Tick(d)
    \/ Requests({"c1"}, SessionIds, Commands)

Spec == Init /\ [][Next]_vars

(* The rate limiter of simple_http_server: POSTs of two clients under a    *)
(* clock that steps around the one-minute window                           *)

InitRate == Start({"simple"}, {Whitelist}, MaxRateRequests, MaxRateTicks)

NextRate ==
    \/ \E d \in RateClockSteps : Tick(d)
    \/ \E c \in Clients, sid \in SessionIds :
          Simple_POST_execute(c, sid, <<"r", "m", " ", "x">>)
    \/ \E c \in Clients : Simple_POST_session(c, SessionIds)

SpecRate == InitRate /\ [][NextRate]_vars

(* Long histories.  A history reaches its cap only after 50 or 100 recorded *)
(* commands, so these runs start from the state the server is in after     *)
(* client c1 has created a session at time 0 and then sent n commands that *)
(* the policy denied, one every RATE_WINDOW seconds (Replay below is that  *)
(* run, and ReplayedIsPast says that it ends in Past(n)).                  *)

PastCommand(i) == IF i % 2 = 1 THEN <<"r", "m", " ", "x">> ELSE <<"L", "s">>

PastRecord(i) ==
    [timestamp |-> i * RATE_WINDOW, command |-> PastCommand(i),
     result |-> IF variant = "simple"
                THEN Simple_not_allowed_result(PastCommand(i))
                ELSE Adv_not_allowed_result(PastCommand(i))]

Past(n) ==
    /\ now = n * RATE_WINDOW
    /\ sessions =
          IF variant = "simple"
          THEN Put(EmptyDict, Token(1),
                   [created |-> 0, last_access |-> n * RATE_WINDOW, commands_run |-> n])
          ELSE Put(EmptyDict, Token(1),
                   [created |-> 0, last_access |-> n * RATE_WINDOW,
                    history |-> [i \in 1..n |-> PastRecord(i)]])
    /\ command_history =
          IF variant = "simple"
          THEN Put(EmptyDict, Token(1), [i \in 1..n |-> PastRecord(i)])
          ELSE EmptyDict
    /\ requests =
          IF variant = "simple"
          THEN Put(EmptyDict, "c1", <<n * RATE_WINDOW>>)
          ELSE EmptyDict
    /\ proc = NoProc
    /\ req = IF n = 0
             THEN [NoReq EXCEPT !.kind = "session", !.client = "c1"]
             ELSE [kind |-> "execute", client |-> "c1", session_id |-> Token(1),
                   command |-> PastCommand(n), at |-> n * RATE_WINDOW,
                   known |-> TRUE, idle |-> RATE_WINDOW,
                   spawned |-> FALSE]
    /\ resp = IF n = 0
              THEN SendJson(200, [session_id |-> Token(1)])
              ELSE SendJson(IF variant = "simple" THEN 200 ELSE 403, PastRecord(n).result)
    /\ admitted = Put(EmptyDict, "c1", [i \in 1..(n + 1) |-> (i - 1) * RATE_WINDOW])
    /\ created = 1
    /\ engine = <<>>

HistoryCap == IF variant = "simple" THEN HISTORY_CAP_SIMPLE ELSE HISTORY_CAP_ADVANCED

\* histories one short of the cap, and at the cap
InitHist ==
    /\ variant \in Variants
    /\ ALLOWED_COMMANDS = Whitelist
    /\ \E n \in {HistoryCap - 1, HistoryCap} : Past(n)
    /\ nreq = MaxHistRequests
    /\ nticks = MaxHistTicks

HistCommands == { <<"l", "s">>, <<"r", "m", " ", "x">>, <<"l", "s", " ", ".", ".">> }

NextHist ==
    \/ \E d \in {1, RATE_WINDOW} : Tick(d)
    \/ \E sid \in SessionIds, cmd \in HistCommands : Simple_POST_execute("c1", sid, cmd)
    \/ \E o \in Completions : Simple_communicate(o)
    \/ Simple_Exception
    \/ Simple_TimeoutExpired
    \/ \E sid \in SessionIds : Simple_serve_history("c1", sid)
    \/ \E sid \in SessionIds, cmd \in HistCommands : Adv_POST_execute("c1", sid, cmd)
    \/ \E o \in Completions : Adv_run(o)
    \/ Adv_Exception
    \/ Adv_TimeoutExpired
    \/ \E sid \in SessionIds : Adv_serve_api_history("c1", sid)

SpecHist == InitHist /\ [][NextHist]_vars

\* the run that leads to Past(n): create the session, then alternately let
\* RATE_WINDOW seconds pass and send the next denied command
InitReplay ==
    /\ Start(Variants, {Whitelist}, HISTORY_CAP_SIMPLE + 1, HISTORY_CAP_SIMPLE)
    /\ nreq = nticks + 1

NextReplay ==
    \/ nreq = nticks + 1 /\ created = 0 /\ Simple_POST_session("c1", SessionIds)
    \/ nreq = nticks + 1 /\ created = 0 /\ Adv_serve_api_session("c1", SessionIds)
    \/ nreq = nticks /\ Tick(RATE_WINDOW)
    \/ nreq = nticks + 1 /\ created = 1
          /\ Simple_POST_execute("c1", Token(1), PastCommand(now \div RATE_WINDOW))
    \/ nreq = nticks + 1 /\ created = 1
          /\ Adv_POST_execute("c1", Token(1), PastCommand(now \div RATE_WINDOW))

SpecReplay == InitReplay /\ [][NextReplay]_vars

\* until the history is full, every state of the replayed run in which the
\* server is between requests is a Past(n)
ReplayedIsPast ==
    (created = 1 /\ nreq = nticks /\ now <= HistoryCap * RATE_WINDOW)
        => Past(now \div RATE_WINDOW)

\* the replayed run gets as far as the histories InitHist starts from
ReplayAtCap == created = 1 /\ nreq = nticks /\ now = HistoryCap * RATE_WINDOW

---------------------------------------------------------------------------
(* Execution: requests without a usable Content-Length header, and child   *)
(* processes that outlive the handler that spawned them                    *)

\* POST /execute whose Content-Length header is missing or not a number:
\* do_POST has consulted the rate limiter, then
\* int(self.headers['Content-Length']) raises outside any try block
Simple_handle_execute_bad_length(client) ==
    /\ variant = "simple" /\ Idle
    /\ nreq' = nreq - 1
    /\ req' = Arrival("malformed", client, <<>>, <<>>)
    /\ LET rl == is_allowed(requests, client, now)
       IN  /\ requests' = rl.requests
           /\ admitted' = IF rl.ok THEN Admit(client) ELSE admitted
           /\ resp' = IF rl.ok THEN Dropped
                      ELSE SendError(429, <<"Too Many Requests">>)
    /\ UNCHANGED <<engine, variant, ALLOWED_COMMANDS, now, sessions,
                   command_history, proc, created, nticks>>

\* POST /api/execute whose Content-Length header is missing or not a number:
\* the int() call is inside the handler's try block
Adv_serve_api_execute_bad_length(client) ==
    /\ variant = "advanced" /\ Idle
    /\ nreq' = nreq - 1
    /\ req' = Arrival("malformed", client, <<>>, <<>>)
    /\ resp' = Adv_server_error
    /\ admitted' = Admit(client)
    /\ UNCHANGED <<engine, variant, ALLOWED_COMMANDS, now, sessions,
                   command_history, requests, proc, created, nticks>>

\* a child process that its handler no longer waits for ends by itself
ChildExits(i) ==
    /\ i \in 1..Len(engine)
    /\ engine[i].alive
    /\ proc.running => i < Len(engine)
    /\ engine' = [engine EXCEPT ![i].alive = FALSE]
    /\ UNCHANGED <<variant, ALLOWED_COMMANDS, now, sessions, command_history,
                   requests, proc, req, resp, admitted, created, nreq, nticks>>

ExecCommands ==
    { <<>>, <<" ">>, <<"l", "s">>, <<"c", "a", "t">>, <<"r", "m", " ", "x">> }

InitExec == Start(Variants, {Whitelist}, MaxExecRequests, MaxExecTicks)

NextExec ==
    \/ \E d \in {1, RATE_WINDOW} : Tick(d)
    \/ Requests({"c1"}, {Token(1)}, ExecCommands)
    \/ Simple_handle_execute_bad_length("c1")
    \/ Adv_serve_api_execute_bad_length("c1")
    \/ \E i \in 1..MaxExecRequests : ChildExits(i)

SpecExec == InitExec /\ [][NextExec]_vars

---------------------------------------------------------------------------
(* SessionManager.add_command called on its own, at any time: the session  *)
(* table is the one left by a session creation and n recorded commands,    *)
(* the clock moves, and add_command is called for a known or unknown id    *)

RecordResults ==
    { [success |-> FALSE, error |-> <<"Execution error">>],
      [success |-> TRUE, output |-> <<"x">>, error |-> <<>>, exit_code |-> 0] }

RecordCommands == { <<"l", "s">>, <<"c", "a", "t">> }

\* session_manager.add_command(sid, command, result) in simple_http_server
Simple_record(sid, command, result) ==
    /\ variant = "simple" /\ Idle
    /\ nreq' = nreq - 1
    /\ req' = Arrival("record", "", sid, command)
    /\ LET a == Simple_add_command(sessions, command_history, sid, command,
                                   result, now)
       IN  /\ sessions' = a.sessions
           /\ command_history' = a.command_history
    /\ UNCHANGED <<engine, variant, ALLOWED_COMMANDS, now, requests, proc, resp,
                   admitted, created, nticks>>

\* session_manager.add_command(sid, command, result) in advanced_server
Adv_record(sid, command, result) ==
    /\ variant = "advanced" /\ Idle
    /\ nreq' = nreq - 1
    /\ req' = Arrival("record", "", sid, command)
    /\ sessions' = Adv_add_command(sessions, sid, command, result, now)
    /\ UNCHANGED <<engine, variant, ALLOWED_COMMANDS, now, command_history, requests,
                   proc, resp, admitted, created, nticks>>

InitRecord ==
    /\ variant \in Variants
    /\ ALLOWED_COMMANDS = Whitelist
    /\ \E n \in {0, 1} : Past(n)
    /\ nreq = MaxRecordCalls
    /\ nticks = MaxRecordTicks

NextRecord ==
    \/ \E d \in ClockSteps : Tick(d)
    \/ \E sid \in SessionIds, cmd \in RecordCommands, result \in RecordResults :
          \/ Simple_record(sid, cmd, result)
          \/ Adv_record(sid, cmd, result)

SpecRecord == InitRecord /\ [][NextRecord]_vars

---------------------------------------------------------------------------
(* Two sessions side by side, under a clock that can pass the session      *)
(* timeout                                                                 *)

TwoSessionIds == {Token(1), Token(2)}

SessCommands == { <<"l", "s">>, <<"r", "m", " ", "x">> }

InitSess == Start(Variants, {Whitelist}, MaxSessRequests, MaxSessTicks)

NextSess ==
    \/ \E d \in ClockSteps : Tick(d)
    \/ Requests({"c1"}, TwoSessionIds, SessCommands)

SpecSess == InitSess /\ [][NextSess]_vars

---------------------------------------------------------------------------
(* simple_http_server: every method and path of one client                 *)

PostCommands == { <<>>, <<"l", "s">>, <<"r", "m", " ", "x">> }

InitPost == Start({"simple"}, {Whitelist}, MaxPostRequests, MaxPostTicks)

NextPost ==
    \/ \E d \in {1, RATE_WINDOW} : Tick(d)
    \/ \E sid \in SessionIds, cmd \in PostCommands : Simple_POST_execute("c1", sid, cmd)
    \/ \E o \in Completions : Simple_communicate(o)
    \/ Simple_Exception
    \/ Simple_TimeoutExpired
    \/ Simple_POST_session("c1", SessionIds)
    \/ Simple_POST_other("c1")
    \/ \E sid \in SessionIds : Simple_serve_history("c1", sid)
    \/ \E path \in GetPaths : Simple_do_GET("c1", path)

SpecPost == InitPost /\ [][NextPost]_vars

---------------------------------------------------------------------------
(* simple_http_server: commands that fail one policy check, both, or none  *)

PolicyCommands ==
    { <<"l", "s">>,                                   \* 'ls'
      <<"r", "m", " ", ".", ".">>,                    \* 'rm ..'
      <<"l", "s", " ", "~", "/", ".", ".">>,          \* 'ls ~/..'
      <<"l", "s", " ", ";", "r", "m", " ", "$", "(">>,  \* 'ls ;rm $('
      <<"c", "a", "t", " ", Backquote>> }             \* 'cat `'

InitPolicy == Start({"simple"}, {Whitelist}, MaxPolicyRequests, MaxPolicyTicks)

NextPolicy ==
    \/ \E d \in {1, RATE_WINDOW} : Tick(d)
    \/ \E sid \in SessionIds, cmd \in PolicyCommands :
          Simple_POST_execute("c1", sid, cmd)
    \/ \E o \in Completions : Simple_communicate(o)
    \/ Simple_Exception
    \/ Simple_TimeoutExpired
    \/ Simple_POST_session("c1", SessionIds)

SpecPolicy == InitPolicy /\ [][NextPolicy]_vars

---------------------------------------------------------------------------
(* Vocabulary of the properties *)

\* the request handled last is an execute-request / a history lookup
IsExecute == req.kind = "execute"
IsHistory == req.kind = "history"

\* the session named by the request was usable when the request arrived
UsableAtArrival == req.known /\ req.idle <= SESSION_TIMEOUT

\* the responses
IsRateLimited(r) == r.status = 429
IsSessionInvalid(r) ==
    /\ r.status \in {401, 403}
    /\ \/ "message" \in DOMAIN r
       \/ r.json = [error |-> <<"Invalid or expired session">>]
IsJsonFailure(r) ==
    /\ "json" \in DOMAIN r
    /\ "success" \in DOMAIN r.json
    /\ ~r.json.success
StartsWith(text, prefix) ==
    Len(text) >= Len(prefix) /\ SubSeq(text, 1, Len(prefix)) = prefix
IsNotAllowedDenial(r) ==
    IsJsonFailure(r) /\ StartsWith(r.json.error, <<"Command '">>)
IsDangerousDenial(r) ==
    IsJsonFailure(r) /\ StartsWith(r.json.error, <<"Security violation: dangerous pattern ">>)

\* the policy as configured
Unrestricted == ALLOWED_COMMANDS = Star
AllowedSet == {split_comma(ALLOWED_COMMANDS)[i] : i \in 1..Len(split_comma(ALLOWED_COMMANDS))}
HasBasename(command) == split(command) # <<>>
Basename(command) == split(command)[1]
BasenameAllowed(command) == HasBasename(command) /\ Basename(command) \in AllowedSet
HasForbidden(command) ==
    \E i \in 1..Len(dangerous_patterns) : Contains(dangerous_patterns[i], command)

\* the rate limiter holds the request: it admitted it for its client
RateAdmitted ==
    /\ req.client \in DOMAIN requests
    /\ InList(req.at, requests[req.client])

---------------------------------------------------------------------------
(* C1 - C4: the policy *)

\* C1: in either server, a subprocess is spawned for an execute-request only
\* if that request passed rate-limit admission for its client, session
\* validation and policy approval.
C1_SpawnOnlyAfterAllChecks ==
    req.spawned =>
        /\ RateAdmitted
        /\ UsableAtArrival
        /\ req.command # <<>>
        /\ Unrestricted \/ BasenameAllowed(req.command)
        /\ ~HasForbidden(req.command)

\* C1, as far as simple_http_server goes (it holds there)
C1_SimpleOnly == variant = "simple" => C1_SpawnOnlyAfterAllChecks

\* C2: under a policy that is not unrestricted, an execute-request whose
\* command's first whitespace-delimited token is not exactly (case-sensitively)
\* one of the allowed commands is answered with the "not allowed" denial once
\* it reaches the policy check, and no subprocess is spawned for it; nor is one
\* spawned for a command that has no token at all.
C2_DisallowedBasenameDenied ==
    (IsExecute /\ ~Unrestricted /\ ~BasenameAllowed(req.command)) =>
        /\ ~req.spawned
        /\ ~proc.running
        /\ (UsableAtArrival /\ ~IsRateLimited(resp) /\ HasBasename(req.command))
               => IsNotAllowedDenial(resp)

\* C2's case: a command that differs from an allowed one only by case is denied
C2_Witness ==
    /\ IsExecute /\ ~Unrestricted /\ UsableAtArrival
    /\ req.command = <<"L", "s">>
    /\ IsNotAllowedDenial(resp)
    /\ ~req.spawned

\* C3: a command whose raw text contains a forbidden substring is denied and
\* never spawns a subprocess, whatever the policy.
C3_ForbiddenNeverSpawned ==
    (IsExecute /\ HasForbidden(req.command)) => ~req.spawned

\* C3, as far as simple_http_server goes (it holds there)
C3_SimpleOnly == variant = "simple" => C3_ForbiddenNeverSpawned

\* C4: with ALLOWED_COMMANDS = '*' no execute-request on a valid session with
\* a non-empty command is denied because its basename is not allowed.
C4_UnrestrictedSkipsBasename ==
    (IsExecute /\ Unrestricted /\ UsableAtArrival /\ req.command # <<>>)
        => ~IsNotAllowedDenial(resp)

\* C4, as far as advanced_server goes (it holds there)
C4_AdvancedOnly == variant = "advanced" => C4_UnrestrictedSkipsBasename

---------------------------------------------------------------------------
(* C5, C6: session validity *)

\* a step in which a request handler calls validate_session on the
\* session_id of its request
ValidationStep ==
    /\ nreq' = nreq - 1
    /\ req'.kind \in {"execute", "history"}
    /\ ~IsRateLimited(resp')

\* the tokens generated so far
Issued == {Token(n) : n \in 1..created}

\* C5: validate_session(id) succeeds exactly when id is in the session table
\* and now - last_access is within SESSION_TIMEOUT; a successful validation
\* sets last_access to the current time, so the session is usable afterwards.
C5_ValidateIffUsable ==
    [][ValidationStep =>
          LET sid == req'.session_id
              usable == /\ sid \in DOMAIN sessions
                        /\ now - sessions[sid].last_access <= SESSION_TIMEOUT
          IN  /\ usable <=> ~IsSessionInvalid(resp')
              /\ usable => /\ sid \in DOMAIN sessions'
                           /\ sessions'[sid].last_access = now
                           /\ now' - sessions'[sid].last_access <= SESSION_TIMEOUT
       ]_vars

\* C5's case: a session validated when it has been idle for the whole timeout
\* is accepted and refreshed
C5_Witness ==
    /\ IsHistory /\ req.known /\ req.idle = SESSION_TIMEOUT
    /\ ~IsSessionInvalid(resp)
    /\ req.session_id \in DOMAIN sessions
    /\ sessions[req.session_id].last_access = req.at

\* C6 as stated: a validation made when now - last_access has reached
\* SESSION_TIMEOUT (exactly, or more) is answered Invalid and removes the
\* session, and a session that is gone stays gone.
C6_InvalidAtExactTimeout ==
    [][ /\ ValidationStep =>
              LET sid == req'.session_id
              IN  (sid \notin DOMAIN sessions
                      \/ now - sessions[sid].last_access >= SESSION_TIMEOUT)
                  => IsSessionInvalid(resp') /\ sid \notin DOMAIN sessions'
        /\ \A sid \in Issued : sid \notin DOMAIN sessions => sid \notin DOMAIN sessions'
      ]_vars

\* C6 amended: a validation made when now - last_access exceeds
\* SESSION_TIMEOUT is answered Invalid and removes the session; every later
\* validation or history lookup for that id is answered Invalid too: a session
\* that is gone stays gone.
C6_InvalidPastTimeout ==
    [][ /\ ValidationStep =>
              LET sid == req'.session_id
              IN  (sid \notin DOMAIN sessions
                      \/ now - sessions[sid].last_access > SESSION_TIMEOUT)
                  => IsSessionInvalid(resp') /\ sid \notin DOMAIN sessions'
        /\ \A sid \in Issued : sid \notin DOMAIN sessions => sid \notin DOMAIN sessions'
      ]_vars

\* C6's case: a history lookup for a session that an earlier validation
\* expired is answered Invalid
C6_Witness ==
    /\ IsHistory /\ req.session_id \in Issued /\ ~req.known
    /\ IsSessionInvalid(resp)
    /\ req.session_id \notin DOMAIN sessions

---------------------------------------------------------------------------
(* C7, C8: the rate limiter *)

\* a step in which do_POST asks the rate limiter about the request's client
RateStep == nreq' = nreq - 1 /\ req'.kind \in {"execute", "session"}

\* what the tables hold for a client
Stored(c) == IF c \in DOMAIN requests THEN requests[c] ELSE <<>>
AdmittedTimes(c) == IF c \in DOMAIN admitted THEN admitted[c] ELSE <<>>

\* the time of the client's k-th most recent admitted request
KthLatest(c, k) == AdmittedTimes(c)[Len(AdmittedTimes(c)) - k + 1]

\* C7: once RATE_LIMIT requests of a client have been admitted within the
\* trailing minute (the RATE_LIMIT-th most recent one less than RATE_WINDOW
\* seconds ago) its next request is denied; once the clock has moved past
\* RATE_WINDOW seconds after that request, a new request is admitted again.
C7_SlidingWindow ==
    [][(variant = "simple" /\ RateStep) =>
          LET c == req'.client
          IN  Len(AdmittedTimes(c)) >= RATE_LIMIT =>
                  /\ now - KthLatest(c, RATE_LIMIT) < RATE_WINDOW
                         => IsRateLimited(resp')
                  /\ now - KthLatest(c, RATE_LIMIT) > RATE_WINDOW
                         => ~IsRateLimited(resp')
       ]_vars

\* C7's case: all requests so far came from c1, RATE_LIMIT + 2 of them; one
\* was denied, and the last one was admitted after the window had slid past
\* the earliest
C7_Witness ==
    /\ variant = "simple"
    /\ DOMAIN admitted = {"c1"}
    /\ DOMAIN requests = {"c1"}
    /\ MaxRateRequests - nreq = RATE_LIMIT + 2
    /\ Len(admitted["c1"]) = RATE_LIMIT + 1
    /\ req.kind = "execute" /\ req.at = now
    /\ ~IsRateLimited(resp)
    /\ now - admitted["c1"][1] > RATE_WINDOW

\* the stored timestamps that are less than / at most RATE_WINDOW seconds old
Newer(ts, t) == SelectSeq(ts, LAMBDA x : t - x < RATE_WINDOW)
NotOlder(ts, t) == SelectSeq(ts, LAMBDA x : t - x <= RATE_WINDOW)

\* what an is_allowed call must do given the timestamps it keeps
RateCall(c, kept) ==
    /\ IF Len(kept) >= RATE_LIMIT
       THEN IsRateLimited(resp') /\ requests'[c] = kept
       ELSE ~IsRateLimited(resp') /\ requests'[c] = Append(kept, now)
    /\ Len(requests'[c]) <= RATE_LIMIT
    /\ \A i \in 1..Len(requests'[c]) :
          /\ InList(requests'[c][i], admitted'[c])
          /\ now - requests'[c][i] < RATE_WINDOW
    /\ \A other \in DOMAIN requests \ {c} : requests'[other] = requests[other]

\* C8 as stated: each call drops exactly the stored timestamps older than
\* RATE_WINDOW seconds (keeping one that is RATE_WINDOW seconds old to the
\* second), then denies without appending when the rest reach the limit and
\* otherwise appends the current time and admits.
C8_DropsOlderThanWindow ==
    [][(variant = "simple" /\ RateStep) =>
          RateCall(req'.client, NotOlder(Stored(req'.client), now))
       ]_vars

\* C8 amended: each call drops exactly the stored timestamps that are
\* RATE_WINDOW seconds old or older, then denies without appending when the
\* rest reach the limit and otherwise appends the current time and admits;
\* after the call the client's sequence holds at most RATE_LIMIT timestamps,
\* all of admitted requests less than RATE_WINDOW seconds old.
C8_DropsWindowOldOrOlder ==
    [][(variant = "simple" /\ RateStep) =>
          RateCall(req'.client, Newer(Stored(req'.client), now))
       ]_vars

\* C8's case: a call that dropped a timestamp exactly RATE_WINDOW seconds
\* old and admitted the request
C8_Witness ==
    /\ variant = "simple"
    /\ req.kind \in {"execute", "session"} /\ req.at = now
    /\ ~IsRateLimited(resp)
    /\ Len(AdmittedTimes(req.client)) >= 2
    /\ KthLatest(req.client, 2) = now - RATE_WINDOW
    /\ requests[req.client] = <<now>>

\* the stored history of a session
HistoryOf(sess, hist, sid) ==
    IF variant = "simple" THEN hist[sid] ELSE sess[sid].history

HasHistory(sess, hist, sid) ==
    sid \in DOMAIN sess /\ (variant = "simple" => sid \in DOMAIN hist)

\* add_command can record under sid now
Recordable(sid) ==
    /\ HasHistory(sessions, command_history, sid)
    /\ variant = "advanced" => ~Adv_session_expired(sessions, sid, now)

\* the history of sid after add_command(sid, command, result) called now
Recorded(sid, command, result) ==
    IF variant = "simple"
    THEN Simple_add_command(sessions, command_history, sid, command, result,
                            now).command_history[sid]
    ELSE Adv_add_command(sessions, sid, command, result, now)[sid].history

(* C9: a session's stored history never holds more than its cap (100       *)
(* records in simple_http_server, 50 in advanced_server).  Recording a     *)
(* command puts its record last and keeps the others in order; when the    *)
(* history is already at the cap exactly the oldest record is dropped.     *)
(* Histories change in no other way than by such a record operation.       *)
C9_HistoryCappedOldestDropped ==
    /\ [](\A sid \in SessionIds :
            Recordable(sid)
            => LET old == HistoryOf(sessions, command_history, sid)
               IN  /\ Len(old) <= HistoryCap
                   /\ \A cmd \in HistCommands :
                         LET result == Adv_not_allowed_result(cmd)
                             rec == [timestamp |-> now, command |-> cmd,
                                     result |-> result]
                             new == Recorded(sid, cmd, result)
                         IN  /\ Len(new) <= HistoryCap
                             /\ new = IF Len(old) = HistoryCap
                                      THEN Append(Tail(old), rec)
                                      ELSE Append(old, rec))
    /\ [][\A sid \in SessionIds :
            (HasHistory(sessions, command_history, sid)
             /\ HasHistory(sessions', command_history', sid))
            => LET old == HistoryOf(sessions, command_history, sid)
                   new == HistoryOf(sessions', command_history', sid)
               IN  \/ new = old
                   \/ new = Recorded(sid, req'.command, resp'.json)]_vars

\* a command has just been recorded in a history that was full: the record
\* of the first command of the past is gone and the second is now the oldest
C9_Witness ==
    /\ HasHistory(sessions, command_history, Token(1))
    /\ LET h == HistoryOf(sessions, command_history, Token(1))
       IN  /\ Len(h) = HistoryCap
           /\ h[1].timestamp = 2 * RATE_WINDOW
           /\ h[Len(h)].command = req.command
           /\ h[Len(h)].timestamp > HistoryCap * RATE_WINDOW

\* the step handles a new execute-request
ExecuteArrives == nreq' # nreq /\ req'.kind = "execute"

\* the rate limiter refuses a request of this client now
RateDenied(client) == variant = "simple" /\ ~is_allowed(requests, client, now).ok

(* C10: an execute-request that the rate limiter denies is answered 429    *)
(* and nothing else happens: no child is spawned and the session table     *)
(* (last_access and commands_run included) and every history stay as they  *)
(* were, whether or not the session token and the command are valid.       *)
C10_RateDeniedTouchesNothing ==
    [][(ExecuteArrives /\ RateDenied(req'.client))
         => /\ resp'.status = 429
            /\ ~req'.spawned /\ proc' = proc
            /\ sessions' = sessions
            /\ command_history' = command_history]_vars

\* a rate-limited execute-request that named a usable session and an allowed,
\* harmless command
C10_Witness ==
    /\ IsExecute /\ IsRateLimited(resp)
    /\ UsableAtArrival
    /\ req.command = <<"l", "s">> /\ ALLOWED_COMMANDS = Whitelist

---------------------------------------------------------------------------
(* C11 - C14: the outcomes of an execute-request *)

\* the step handles a new execute-request that the rate limiter lets through
ExecuteHandled == ExecuteArrives /\ ~RateDenied(req'.client)

\* the session the arriving request names is usable
UsableSession == req'.known /\ req'.idle <= SESSION_TIMEOUT

\* the step appends nothing to any history
NothingRecorded ==
    \A sid \in SessionIds :
        HasHistory(sessions', command_history', sid)
        => /\ HasHistory(sessions, command_history, sid)
           /\ HistoryOf(sessions', command_history', sid)
                = HistoryOf(sessions, command_history, sid)

\* the step hands nothing to subprocess
NothingSpawned == ~req'.spawned /\ ~proc'.running /\ engine' = engine

(* C11: an execute-request whose session token is missing, unknown or      *)
(* expired is answered "invalid session" (401 in simple_http_server, 403   *)
(* in advanced_server) whatever its command, before the empty-command and  *)
(* policy checks; nothing is spawned and nothing is recorded.              *)
C11_InvalidSessionRejectedFirst ==
    [][(ExecuteHandled /\ ~UsableSession)
         => /\ IsSessionInvalid(resp')
            /\ NothingSpawned
            /\ NothingRecorded]_vars

\* C11's case: an allowed command sent with a session that has expired
C11_Witness ==
    /\ IsExecute /\ IsSessionInvalid(resp)
    /\ req.known /\ req.idle > SESSION_TIMEOUT
    /\ req.command = <<"l", "s">> /\ ALLOWED_COMMANDS = Whitelist
    /\ engine = <<>>

\* the reason given for an empty command
IsEmptyCommandReason(r) ==
    /\ "json" \in DOMAIN r
    /\ r.json.error \in {<<"No command provided">>, <<"Command cannot be empty">>}

\* the response is one of the policy denials
IsPolicyDenial(r) == IsNotAllowedDenial(r) \/ IsDangerousDenial(r)

(* C12: an execute-request on a valid session whose command is the empty   *)
(* string is answered with status 400 and an "empty command" reason that   *)
(* is none of the policy-denial reasons; nothing is spawned and nothing is *)
(* recorded.                                                               *)
C12_EmptyCommandAnswered400 ==
    [][(ExecuteHandled /\ UsableSession /\ req'.command = <<>>)
         => /\ resp'.status = 400
            /\ IsEmptyCommandReason(resp') /\ ~IsPolicyDenial(resp')
            /\ NothingSpawned
            /\ NothingRecorded]_vars

\* C12 without the status: the empty command is refused with its own reason,
\* nothing is spawned and nothing is recorded (this holds in both servers)
C12_EmptyCommandRefused ==
    [][(ExecuteHandled /\ UsableSession /\ req'.command = <<>>)
         => /\ IsEmptyCommandReason(resp') /\ ~IsPolicyDenial(resp')
            /\ NothingSpawned
            /\ NothingRecorded]_vars

\* the step appends exactly one record to the history of sid, for this
\* command and with this result, and changes no other history
OneRecordAppended(sid, command, result) ==
    /\ HasHistory(sessions, command_history, sid)
    /\ HasHistory(sessions', command_history', sid)
    /\ HistoryOf(sessions', command_history', sid)
         = Append(HistoryOf(sessions, command_history, sid),
                  [timestamp |-> now, command |-> command, result |-> result])
    /\ \A other \in SessionIds \ {sid} :
          HasHistory(sessions', command_history', other)
          => /\ HasHistory(sessions, command_history, other)
             /\ HistoryOf(sessions', command_history', other)
                  = HistoryOf(sessions, command_history, other)

(* C13: every policy denial (the basename is not allowed, or the command   *)
(* holds a forbidden substring) on a valid session appends exactly one     *)
(* record with the command text and a result with success = false, and is  *)
(* answered with status 403 and a reason; nothing is spawned.              *)
C13_PolicyDenialRecorded403 ==
    [][(ExecuteHandled /\ UsableSession /\ IsPolicyDenial(resp'))
         => /\ resp'.status = 403
            /\ ~resp'.json.success /\ resp'.json.error # <<>>
            /\ OneRecordAppended(req'.session_id, req'.command, resp'.json)
            /\ NothingSpawned]_vars

\* C13 without the status (this holds in both servers)
C13_PolicyDenialRecorded ==
    [][(ExecuteHandled /\ UsableSession /\ IsPolicyDenial(resp'))
         => /\ ~resp'.json.success /\ resp'.json.error # <<>>
            /\ OneRecordAppended(req'.session_id, req'.command, resp'.json)
            /\ NothingSpawned]_vars

\* the step in which the handler stops waiting for its subprocess
EngineReturns == proc.running /\ ~proc'.running

(* C14: every execute-request that reached the spawn appends exactly one   *)
(* record to its session's history and is answered with status 200,        *)
(* whether the command completed (with any exit code), timed out or the    *)
(* spawn raised.                                                           *)
C14_ExecutionRecorded200 ==
    [][EngineReturns
         => /\ resp'.status = 200
            /\ OneRecordAppended(proc.session_id, proc.command, resp'.json)]_vars

\* C14 for simple_http_server only (it holds there)
C14_SimpleOnly ==
    [][(variant = "simple" /\ EngineReturns)
         => /\ resp'.status = 200
            /\ OneRecordAppended(proc.session_id, proc.command, resp'.json)]_vars

---------------------------------------------------------------------------
(* C15 - C19: the execution engine *)

\* the step in which the wait for the subprocess ends with TimeoutExpired
TimedOut == Simple_TimeoutExpired \/ Adv_TimeoutExpired

IsTimeoutResult(r) ==
    IsJsonFailure(r) /\ StartsWith(r.json.error, <<"Command timed out after ">>)

\* a child process is alive only while its handler waits for it
NoOrphan ==
    \A i \in 1..Len(engine) :
        engine[i].alive => (proc.running /\ i = Len(engine))

(* C15: when a spawned command has not ended by COMMAND_TIMEOUT the        *)
(* request gets a timeout result (success = false, "timed out after N")    *)
(* and the child process is killed: once the handler has stopped waiting,  *)
(* no child process is left running.                                       *)
C15_TimeoutKillsChild ==
    /\ [][TimedOut => IsTimeoutResult(resp')]_vars
    /\ []NoOrphan

\* C15 for advanced_server, without the shape of the answer: subprocess.run
\* kills the child before it raises (this holds)
C15_AdvancedKills == variant = "advanced" => NoOrphan

\* the markers simple_http_server appends to a stream it cuts
OutputMarker == <<"\n... (output truncated at ", ToString(MAX_OUTPUT_SIZE), " bytes)">>
ErrorMarker == <<"\n... (error output truncated at ", ToString(MAX_OUTPUT_SIZE), " bytes)">>

\* a stream cut to MAX_OUTPUT_SIZE units and marked, or whole when it fits
Truncated(text, marker) ==
    IF Len(text) > MAX_OUTPUT_SIZE
    THEN SubSeq(text, 1, MAX_OUTPUT_SIZE) \o marker
    ELSE text

\* the step in which the subprocess ends in time, leaving c behind
Completes(c) == Simple_communicate(c) \/ Adv_run(c)

(* C16: of a command that completed, each captured stream is returned      *)
(* whole when it is at most MAX_OUTPUT_SIZE long, and otherwise as its     *)
(* first MAX_OUTPUT_SIZE units followed by the truncation marker; stdout   *)
(* and stderr are treated independently.                                   *)
C16_StreamsTruncated ==
    [][\A c \in Completions :
          Completes(c)
          => /\ resp'.json.output = Truncated(c.stdout, OutputMarker)
             /\ resp'.json.error = Truncated(c.stderr, ErrorMarker)]_vars

\* C16 for simple_http_server only (it holds there)
C16_SimpleOnly ==
    [][\A c \in Completions :
          Simple_communicate(c)
          => /\ resp'.json.output = Truncated(c.stdout, OutputMarker)
             /\ resp'.json.error = Truncated(c.stderr, ErrorMarker)]_vars

\* the result of a command that ran to completion
IsCompleted(result) == "success" \in DOMAIN result /\ result.success

\* neither stream of a completed result is longer than MAX_OUTPUT_SIZE
StreamsWithinLimit(result) ==
    IsCompleted(result)
    => /\ Len(result.output) <= MAX_OUTPUT_SIZE
       /\ Len(result.error) <= MAX_OUTPUT_SIZE

(* C17: in every response to an execute-request and in every record of a   *)
(* session history, neither the stdout stream nor the stderr stream is     *)
(* longer than MAX_OUTPUT_SIZE.                                            *)
C17_StreamsWithinLimit ==
    /\ (IsExecute /\ "json" \in DOMAIN resp) => StreamsWithinLimit(resp.json)
    /\ \A sid \in SessionIds :
          HasHistory(sessions, command_history, sid)
          => \A i \in 1..Len(HistoryOf(sessions, command_history, sid)) :
                StreamsWithinLimit(HistoryOf(sessions, command_history, sid)[i].result)

\* the answers to a request that failed while or before it ran
IsExceptionResult(r) ==
    \/ IsJsonFailure(r) /\ StartsWith(r.json.error, <<"Execution error">>)
    \/ r = Adv_server_error

\* how many of the four outcomes the response shows
OutcomesOf(r) ==
    Cardinality({ k \in {"policy-rejected", "timed-out", "exception", "completed"} :
                    \/ k = "policy-rejected" /\ IsPolicyDenial(r)
                    \/ k = "timed-out" /\ IsTimeoutResult(r)
                    \/ k = "exception" /\ IsExceptionResult(r)
                    \/ k = "completed" /\ "json" \in DOMAIN r /\ IsCompleted(r.json) })

\* the request handled last passed the session check and the empty-command
\* check, and has been answered
PassedChecksAnswered ==
    /\ IsExecute /\ UsableAtArrival /\ req.command # <<>>
    /\ ~proc.running /\ ~IsRateLimited(resp)

(* C18: a command that completes within the timeout gets a result with     *)
(* the child's exit code unchanged and success = true, whether or not the  *)
(* exit code is zero; for a request that passed the session and            *)
(* empty-command checks, success = false comes only with a policy denial,  *)
(* a timeout or an exception, and exactly one of the outcomes              *)
(* policy-rejected, timed-out, exception, completed applies.               *)
C18_ExitCodeAndOutcome ==
    /\ [][\A c \in Completions :
            Completes(c) => /\ resp'.json.success
                            /\ resp'.json.exit_code = c.exit_code]_vars
    /\ [](PassedChecksAnswered
            => /\ OutcomesOf(resp) = 1
               /\ IsJsonFailure(resp)
                    => \/ IsPolicyDenial(resp)
                       \/ IsTimeoutResult(resp)
                       \/ IsExceptionResult(resp))

\* C18's case: a command that ended with a nonzero exit code
C18_Witness ==
    /\ PassedChecksAnswered
    /\ "json" \in DOMAIN resp /\ IsCompleted(resp.json)
    /\ resp.json.exit_code = 1
    /\ ~engine[Len(engine)].alive

\* a request has arrived and its handler has finished
Handled == req.kind \in {"execute", "malformed"} /\ ~proc.running

(* C19: whatever is raised while an execute-request is handled (a missing  *)
(* or malformed Content-Length, a command without a basename, a failing    *)
(* spawn, a timeout) is caught in the handler: every execute-request gets  *)
(* a response.                                                             *)
C19_EveryRequestAnswered == Handled => (resp.status # 0 /\ resp # Dropped)

\* C19 for advanced_server only (it holds there)
C19_AdvancedOnly == (variant = "advanced" /\ Handled) => resp.status # 0

---------------------------------------------------------------------------
(* C20: the order of a session's history *)

\* the commands handed to subprocess for session sid, in the order of the
\* hand-over
AdmittedCommands(sid) ==
    LET mine == SelectSeq(engine, LAMBDA e : e.session_id = sid)
    IN  [i \in 1..Len(mine) |-> mine[i].command]

\* the commands of the history records that stem from an execution (the
\* records of policy denials left out), oldest first
ExecutedCommands(sid) ==
    LET h == HistoryOf(sessions, command_history, sid)
        ran == SelectSeq(h, LAMBDA rec : ~IsPolicyDenial(SendJson(200, rec.result)))
    IN  [i \in 1..Len(ran) |-> ran[i].command]

\* a is b with some elements left out
RECURSIVE IsSubsequence(_, _)
IsSubsequence(a, b) ==
    IF a = <<>> THEN TRUE
    ELSE IF b = <<>> THEN FALSE
    ELSE IF a[1] = b[1] THEN IsSubsequence(Tail(a), Tail(b))
    ELSE IsSubsequence(a, Tail(b))

(* C20: the records of executed commands stand in a session's history in   *)
(* the order in which the commands were handed to the execution engine:    *)
(* they are the handed-over commands of that session, in that order, less  *)
(* the ones not recorded (yet); and the command the handler waits for is   *)
(* always the one handed over last.                                        *)
C20_HistoryInAdmissionOrder ==
    /\ \A sid \in SessionIds :
          HasHistory(sessions, command_history, sid)
          => /\ IsSubsequence(ExecutedCommands(sid), AdmittedCommands(sid))
             /\ variant = "simple"
                  => ExecutedCommands(sid)
                       = IF proc.running /\ proc.session_id = sid
                         THEN SubSeq(AdmittedCommands(sid), 1,
                                     Len(AdmittedCommands(sid)) - 1)
                         ELSE AdmittedCommands(sid)
    /\ proc.running
         => /\ engine # <<>>
            /\ engine[Len(engine)].session_id = proc.session_id
            /\ engine[Len(engine)].command = proc.command

\* C20's case: two different commands of one session were executed one after
\* the other; the child of the first, which timed out, is still running when
\* the second has completed and been recorded
C20_Witness ==
    /\ HasHistory(sessions, command_history, Token(1))
    /\ ExecutedCommands(Token(1)) = << <<"l", "s">>, <<"c", "a", "t">> >>
    /\ Len(engine) = 2
    /\ engine[1].alive /\ ~engine[2].alive
    /\ ~proc.running

---------------------------------------------------------------------------
(* C21, C22: handlers and the shared tables *)

\* the step takes a new request
RequestArrives == nreq' # nreq

\* a is the tail end of b
IsSuffix(a, b) ==
    Len(a) <= Len(b) /\ a = SubSeq(b, Len(b) - Len(a) + 1, Len(b))

(* C21: no two handlers are ever at work on the session table or on the    *)
(* rate-limiter table at the same time: a request is taken only when no    *)
(* handler is in progress.  So nothing is lost: the rate limiter holds, of  *)
(* each client, the most recent admitted timestamps without a gap, the     *)
(* latest one included, and commands_run counts every record of the        *)
(* session's history.                                                      *)
C21_HandlersOneAtATime ==
    /\ [][RequestArrives => ~proc.running]_vars
    /\ [](\A c \in DOMAIN requests :
             requests[c] # <<>>
             => /\ IsSuffix(requests[c], AdmittedTimes(c))
                /\ AdmittedTimes(c) # <<>>)
    /\ [](\A sid \in DOMAIN command_history :
             /\ sid \in DOMAIN sessions
             /\ sessions[sid].commands_run = Len(command_history[sid]))

\* C21's case: two POSTs of one client were admitted in the same second and
\* both timestamps are stored; the second left a record that is counted
C21_Witness ==
    /\ variant = "simple"
    /\ "c1" \in DOMAIN requests /\ requests["c1"] = <<now, now>>
    /\ Token(1) \in DOMAIN command_history
    /\ sessions[Token(1)].commands_run = 1
    /\ Len(command_history[Token(1)]) = 1

(* C22: while a handler waits for its subprocess, other requests (session  *)
(* creation, a history lookup, an execute) can be taken and answered.      *)
C22_ServedWhileBlocked ==
    (proc.running /\ nreq > 0)
    => ENABLED (\/ Simple_POST_session("c1", SessionIds \cup {Token(created + 1)})
                \/ Adv_serve_api_session("c1", SessionIds \cup {Token(created + 1)})
                \/ \E sid \in SessionIds : Simple_serve_history("c1", sid)
                \/ \E sid \in SessionIds : Adv_serve_api_history("c1", sid))

\* what holds instead: as long as a handler waits, the server takes no request
C22_NothingServedWhileBlocked == [][proc.running => ~RequestArrives]_vars

---------------------------------------------------------------------------
(* C23 - C25: the session manager *)

\* the step is a call of add_command
RecordCall == RequestArrives /\ req'.kind = "record"

\* the commands_run counters of the sessions that stay
CountersUnchanged ==
    \A sid \in DOMAIN sessions \cap DOMAIN sessions' :
        variant = "simple" => sessions'[sid].commands_run = sessions[sid].commands_run

(* C23: add_command validates the session first.  For an id that is        *)
(* unknown or idle for more than SESSION_TIMEOUT it appends nothing and    *)
(* changes no history and no counter; for a valid session it appends one   *)
(* record, drops the oldest records beyond the cap and (simple) adds one   *)
(* to commands_run.                                                        *)
C23_RecordValidatesFirst ==
    [][RecordCall =>
         LET sid == req'.session_id
         IN  IF UsableSession
             THEN /\ HasHistory(sessions', command_history', sid)
                  /\ LET old == HistoryOf(sessions, command_history, sid)
                         new == HistoryOf(sessions', command_history', sid)
                     IN  /\ new # <<>>
                         /\ new[Len(new)].command = req'.command
                         /\ new[Len(new)].timestamp = now
                         /\ new = IF Len(old) = HistoryCap
                                  THEN Append(Tail(old), new[Len(new)])
                                  ELSE Append(old, new[Len(new)])
                  /\ variant = "simple"
                       => sessions'[sid].commands_run = sessions[sid].commands_run + 1
             ELSE NothingRecorded /\ CountersUnchanged]_vars

\* C23 for advanced_server only (it holds there)
C23_AdvancedOnly ==
    [][(variant = "advanced" /\ RecordCall /\ ~UsableSession)
         => NothingRecorded]_vars

\* the records a history lookup sent back
Returned == IF variant = "simple" THEN resp.json.history ELSE resp.json

\* the response carries records
CarriesRecords == "json" \in DOMAIN resp /\ resp.status = 200

(* C24: a history lookup on a valid session returns the whole stored       *)
(* history of the session, oldest record first; a lookup on an unknown or  *)
(* expired session returns the invalid-session signal and no records.      *)
C24_LookupReturnsWholeHistory ==
    IsHistory
    => IF UsableAtArrival
       THEN /\ CarriesRecords
            /\ Returned = HistoryOf(sessions, command_history, req.session_id)
       ELSE IsSessionInvalid(resp) /\ ~CarriesRecords

(* C24 as the code has it: simple_http_server returns the last ten stored  *)
(* records, advanced_server the whole stored history, both oldest first.   *)
C24_LookupReturnsView ==
    IsHistory
    => IF UsableAtArrival
       THEN /\ CarriesRecords
            /\ LET stored == HistoryOf(sessions, command_history, req.session_id)
               IN  Returned = IF variant = "simple"
                              THEN LastN(stored, HISTORY_VIEW)
                              ELSE stored
       ELSE IsSessionInvalid(resp) /\ ~CarriesRecords

\* the step belongs to a request that names sid: its arrival, or the end of
\* its handler
HandlerStepFor(sid) ==
    /\ req'.session_id = sid
    /\ req'.kind \in {"execute", "history"}
    /\ now' = now
    /\ RequestArrives \/ proc.running

(* C25: a session leaves the table only in a step of a request that names  *)
(* it (a validation of that id), made when now - last_access is above      *)
(* SESSION_TIMEOUT; a session that stays is changed only by a request that *)
(* names it; in simple_http_server the history leaves with the session and *)
(* at no other time.                                                       *)
C25_RemovedOnlyByOwnExpiredValidation ==
    [][\A sid \in DOMAIN sessions :
         /\ sid \notin DOMAIN sessions'
              => /\ HandlerStepFor(sid)
                 /\ now - sessions[sid].last_access > SESSION_TIMEOUT
                 /\ sid \notin DOMAIN command_history'
         /\ sid \in DOMAIN sessions'
              => /\ sessions'[sid] # sessions[sid] => HandlerStepFor(sid)
                 /\ variant = "simple"
                      => /\ sid \in DOMAIN command_history'
                         /\ command_history'[sid] # command_history[sid]
                              => HandlerStepFor(sid)]_vars

C25_Witness ==
    /\ created = 2
    /\ variant = "simple"
    /\ IsHistory /\ req.session_id = Token(1) /\ req.idle > SESSION_TIMEOUT
    /\ DOMAIN sessions = {Token(2)}
    /\ DOMAIN command_history = {Token(2)}
    /\ now - sessions[Token(2)].last_access > SESSION_TIMEOUT

---------------------------------------------------------------------------
(* C26: the rate limiter and the methods *)

IsPost(r) == r.kind \in {"execute", "session", "post"}
IsGet(r) == r.kind \in {"history", "get"}

(* C26: in simple_http_server every POST is put to the rate limiter of its  *)
(* client before its path is looked at, whatever the path and the outcome:  *)
(* it is answered 429 when the client is at its limit and takes a place in  *)
(* the client's window otherwise.  A GET, and the end of a handler, leave   *)
(* the rate-limiter table alone.                                            *)
C26_EveryPostCounts ==
    [][variant = "simple" =>
         /\ (RequestArrives /\ IsPost(req'))
              => /\ req'.client \in DOMAIN requests'
                 /\ RateCall(req'.client, Newer(Stored(req'.client), now))
         /\ (RequestArrives /\ IsGet(req')) => requests' = requests
         /\ RequestArrives => IsPost(req') \/ IsGet(req')
         /\ ~RequestArrives => requests' = requests]_vars

\* C26's case: an execute is answered 429 although the RATE_LIMIT earlier
\* POSTs of its client ran no command and recorded nothing: session
\* creations, POSTs to other paths, executes refused before the policy
C26_Witness ==
    /\ variant = "simple"
    /\ req.kind = "execute" /\ IsRateLimited(resp)
    /\ nreq = MaxPostRequests - (RATE_LIMIT + 1)
    /\ engine = <<>>
    /\ now = 0
    /\ \A sid \in DOMAIN command_history : command_history[sid] = <<>>

---------------------------------------------------------------------------
(* C27, C28: the policy checks *)

\* the command is not empty and holds nothing but whitespace
OnlyWhitespace(command) == command # <<>> /\ ~HasBasename(command)

(* C27: an execute-request on a valid session whose command is not empty   *)
(* but all whitespace is never executed, and it is answered with a denial, *)
(* not with a server error, in both servers.                               *)
C27_WhitespaceCommandDenied ==
    [][(ExecuteHandled /\ UsableSession /\ OnlyWhitespace(req'.command))
         => /\ NothingSpawned
            /\ IsPolicyDenial(resp')
            /\ resp'.status # 500]_vars

\* C27 for simple_http_server only (it holds there), and what advanced_server
\* does instead: nothing is executed, the answer is the server error
C27_SimpleDeniesAdvancedFails ==
    [][(ExecuteHandled /\ UsableSession /\ OnlyWhitespace(req'.command))
         => /\ NothingSpawned
            /\ IF variant = "simple"
               THEN IsNotAllowedDenial(resp')
               ELSE resp' = Adv_server_error /\ NothingRecorded]_vars

\* the forbidden substrings in the order of the list, and the place of the
\* first of them that the command contains
ForbiddenList ==
    << <<".", ".">>, <<"~", "/">>, <<"/", "e", "t", "c", "/">>,
       <<"/", "r", "o", "o", "t", "/">>, <<"$", "(">>, <<"$", "{">>, <<Backquote>>,
       <<";", "r", "m">>, <<";", "s", "u", "d", "o">> >>

FirstForbidden(command) ==
    CHOOSE i \in 1..Len(ForbiddenList) :
        /\ Contains(ForbiddenList[i], command)
        /\ \A j \in 1..(i - 1) : ~Contains(ForbiddenList[j], command)

\* the response names exactly this pattern
NamesPattern(r, pat) ==
    /\ IsDangerousDenial(r)
    /\ r.json.error = <<"Security violation: dangerous pattern ">> \o pat

(* C28: in simple_http_server the allowed-basename check comes before the  *)
(* forbidden-substring scan: a command that fails both is answered "not    *)
(* allowed", never "dangerous pattern"; a command with an allowed basename *)
(* and several forbidden substrings is answered with the first of them in  *)
(* the order of the list '..', '~/', '/etc/', '/root/', '$(', '${', '`',  *)
(* ';rm', ';sudo'; either way exactly one history record is appended.      *)
C28_PolicyCheckOrder ==
    [][(variant = "simple" /\ ExecuteHandled /\ UsableSession
          /\ req'.command # <<>>)
         => LET command == req'.command
                sid == req'.session_id
            IN  IF ~BasenameAllowed(command)
                THEN /\ IsNotAllowedDenial(resp') /\ ~IsDangerousDenial(resp')
                     /\ OneRecordAppended(sid, command, resp'.json)
                ELSE IF HasForbidden(command)
                THEN /\ NamesPattern(resp', ForbiddenList[FirstForbidden(command)])
                     /\ ~IsNotAllowedDenial(resp')
                     /\ OneRecordAppended(sid, command, resp'.json)
                ELSE req'.spawned]_vars

\* C28's case: 'ls ;rm $(' holds ';rm' before '$(' but the list has '$('
\* first, and '$(' is the pattern reported and recorded
C28_Witness ==
    /\ variant = "simple" /\ IsExecute /\ UsableAtArrival
    /\ req.command = <<"l", "s", " ", ";", "r", "m", " ", "$", "(">>
    /\ NamesPattern(resp, <<"$", "(">>)
    /\ req.session_id \in DOMAIN command_history
    /\ Len(command_history[req.session_id]) = 1
    /\ command_history[req.session_id][1].result = resp.json

\* a command that fails both checks is recorded as "not allowed"
C28_BothFail ==
    /\ variant = "simple" /\ IsExecute /\ UsableAtArrival
    /\ req.command = <<"r", "m", " ", ".", ".">>
    /\ IsNotAllowedDenial(resp)
    /\ Len(command_history[req.session_id]) = 1

---------------------------------------------------------------------------
(* C29: the clients of the rate limiter *)

(* C29: rate limiting is per client.  An is_allowed call for client c      *)
(* leaves the stored timestamps of every other client as they were, and    *)
(* its answer is decided by c's own admitted requests of the last          *)
(* RATE_WINDOW seconds alone: it is a denial exactly when there are         *)
(* RATE_LIMIT of them or more, whatever the other clients have done.       *)
C29_PerClientLimit ==
    [][(variant = "simple" /\ RateStep) =>
          LET c == req'.client
          IN  /\ \A other \in Clients \ {c} :
                    /\ other \in DOMAIN requests' <=> other \in DOMAIN requests
                    /\ other \in DOMAIN requests
                         => requests'[other] = requests[other]
              /\ IsRateLimited(resp')
                   <=> Len(Newer(AdmittedTimes(c), now)) >= RATE_LIMIT
       ]_vars

\* C29's case: c1 has used up its limit and has been denied, and a request
\* of c2 made at the same second is admitted
C29_Witness ==
    /\ variant = "simple"
    /\ Len(Newer(AdmittedTimes("c1"), now)) = RATE_LIMIT
    /\ MaxRateRequests - nreq = RATE_LIMIT + 2
    /\ req.client = "c2" /\ req.at = now /\ ~IsRateLimited(resp)
    /\ AdmittedTimes("c2") = <<now>>
    /\ requests["c1"] = AdmittedTimes("c1")

---------------------------------------------------------------------------
(* C30: the command counter of simple_http_server *)

\* the step records a command under sid: the handler answers a policy
\* denial, or the wait for the child ends (completed, timed out or failed)
RecordingStepFor(sid) ==
    /\ req'.session_id = sid
    /\ \/ ExecuteArrives /\ IsPolicyDenial(resp')
       \/ proc.running /\ ~proc'.running

Min(a, b) == IF a <= b THEN a ELSE b

(* C30: in simple_http_server commands_run of a live session goes up by    *)
(* one with every record appended for it (policy denial, timeout,          *)
(* completion alike) and changes at no other step, so it counts the        *)
(* records ever appended and never decreases; the history holds            *)
(* min(commands_run, 100) records.                                         *)
C30_CommandsRunCountsRecords ==
    /\ [][variant = "simple" =>
            \A sid \in DOMAIN sessions \cap DOMAIN sessions' :
                /\ sessions'[sid].commands_run
                     = sessions[sid].commands_run
                         + (IF RecordingStepFor(sid) THEN 1 ELSE 0)
                /\ sessions'[sid].commands_run >= sessions[sid].commands_run
                /\ RecordingStepFor(sid)
                     => /\ command_history'[sid] # <<>>
                        /\ command_history'[sid][Len(command_history'[sid])].command
                             = req'.command]_vars
    /\ [](variant = "simple" =>
            \A sid \in DOMAIN sessions :
                /\ sid \in DOMAIN command_history
                /\ Len(command_history[sid])
                     = Min(sessions[sid].commands_run, HISTORY_CAP_SIMPLE))

\* C30's case: one record more than the cap has been appended, the last of
\* them for a command that timed out
C30_Witness ==
    /\ variant = "simple"
    /\ Token(1) \in DOMAIN sessions
    /\ sessions[Token(1)].commands_run = HISTORY_CAP_SIMPLE + 1
    /\ Len(command_history[Token(1)]) = HISTORY_CAP_SIMPLE
    /\ StartsWith(command_history[Token(1)][HISTORY_CAP_SIMPLE].result.error,
                  <<"Command timed out after ">>)

---------------------------------------------------------------------------
(* C31: the two tables of simple_http_server's SessionManager *)

(* C31: in simple_http_server sessions and command_history have the same   *)
(* keys in every reachable state, and every step that records a command    *)
(* (and every handler still waiting for its child) names a session that is *)
(* in both: the commands_run update of add_command always finds its        *)
(* session.                                                                *)
C31_SameKeys ==
    /\ [](variant = "simple" =>
            /\ DOMAIN sessions = DOMAIN command_history
            /\ proc.running => proc.session_id \in DOMAIN sessions)
    /\ [][variant = "simple" =>
            \A sid \in DOMAIN command_history :
                RecordingStepFor(sid)
                => /\ sid \in DOMAIN sessions
                   /\ sid \in DOMAIN sessions'
                   /\ sessions'[sid].commands_run = sessions[sid].commands_run + 1]_vars

\* C31's case: a session was created, a command ran under it to its end and
\* was recorded, and a lookup after the timeout has removed the session from
\* both tables
C31_Witness ==
    /\ variant = "simple"
    /\ created = 1
    /\ Len(engine) = 1 /\ ~engine[1].alive /\ engine[1].session_id = Token(1)
    /\ IsHistory /\ req.session_id = Token(1) /\ req.idle > SESSION_TIMEOUT
    /\ DOMAIN sessions = {}
    /\ DOMAIN command_history = {}
====
